---- MODULE Spec2Model ----
(***************************************************************************)
(* Model of ProblemSet5/TCPSimulator.py: a discrete-event simulation of a  *)
(* TCP-like transfer.  A driver loop dequeues (event, time) pairs from a   *)
(* priority queue and dispatches them to a client, which segments a        *)
(* message into packets, and a server, which reassembles and acknowledges  *)
(* them.                                                                   *)
(***************************************************************************)
EXTENDS Integers, Sequences, FiniteSets, TLC

VARIABLES
    lossProb,     \* configured LOST_PACKET_PROBABILITY, in percent
    defWindow,    \* window field of a TCPPacket built without window=
    eventQueue,   \* PriorityQueue: sequence of [e, t], earliest first
    client,       \* TCPClient attributes
    server,       \* TCPServer attributes
    status,       \* position of TCPSimulator(): "running", "done", "crashed"
    trace,        \* the event being dispatched and its time (EVENT_TRACE line)
    sent,         \* packets built by sendNextPacket for the current message
    received,     \* bytes of the last "Server receives" line
    stats,        \* counters observed on the run
    dups          \* redeliveries made by the duplicate-delivery harness

vars == <<lossProb, defWindow, eventQueue, client, server, status, trace,
          sent, received, stats, dups>>

(***************************************************************************)
(* Bounds                                                                  *)
(***************************************************************************)
MaxMsgChars == 3     \* longest message typed, in characters
MaxMsgs == 2         \* non-empty messages typed in one run
MaxWindow == 8       \* the large default window of a packet
MaxDups == 1         \* redeliveries made by the harness

(***************************************************************************)
(* Program constants                                                       *)
(***************************************************************************)
MAX_PACKET_DATA == 4
TRANSMISSION_DELAY == 5
LOST_PACKET_PROBABILITY == 25
ROUND_TRIP_TIME == 2 * TRANSMISSION_DELAY
TIMEOUT == 2 * ROUND_TRIP_TIME

\* Loss probabilities a run is configured with (percent): none, the
\* default, total.
LossConfigs == {0, LOST_PACKET_PROBABILITY, 100}

\* random.randint(0,1) returns 0 or 1.
RandInts == {0, 1}

Min(a, b) == IF a < b THEN a ELSE b

(***************************************************************************)
(* Messages: strings over a one-byte and a two-byte character, and their   *)
(* UTF-8 encoding.                                                         *)
(***************************************************************************)
Chars == {65, 233}

RECURSIVE SeqsUpTo(_, _)
SeqsUpTo(S, n) ==
    IF n = 0 THEN {<<>>}
    ELSE LET shorter == SeqsUpTo(S, n - 1)
         IN shorter \cup {Append(s, c) : s \in shorter, c \in S}

Messages == SeqsUpTo(Chars, MaxMsgChars)

EncodeChar(c) ==
    IF c < 128 THEN <<c>> ELSE <<192 + (c \div 64), 128 + (c % 64)>>

RECURSIVE Encode(_)
Encode(msg) ==
    IF msg = <<>> THEN <<>> ELSE EncodeChar(Head(msg)) \o Encode(Tail(msg))

\* bytes.decode("UTF-8") raises UnicodeDecodeError unless the bytes are a
\* sequence of well-formed characters.
RECURSIVE WellFormed(_)
WellFormed(b) ==
    IF b = <<>> THEN TRUE
    ELSE IF b[1] < 128 THEN WellFormed(Tail(b))
    ELSE IF b[1] >= 192 /\ Len(b) >= 2
         THEN b[2] >= 128 /\ b[2] < 192 /\ WellFormed(Tail(Tail(b)))
         ELSE FALSE

(***************************************************************************)
(* Packets and events                                                      *)
(***************************************************************************)
TCPPacket(seq, ack, ACK, data, window) ==
    [seq |-> seq, ack |-> ack, ACK |-> ACK, FIN |-> FALSE,
     window |-> window, data |-> data]

NoPacket == TCPPacket(0, 0, FALSE, <<>>, 0)

RequestMessageEvent(c) ==
    [type |-> "RequestMessage", obj |-> c, packet |-> NoPacket]

ReceivePacketEvent(handler, p) ==
    [type |-> "ReceivePacket", obj |-> handler, packet |-> p]

TimeoutEvent(x) ==
    [type |-> "Timeout", obj |-> x, packet |-> NoPacket]

(***************************************************************************)
(* PriorityQueue: entries ordered by time, equal times in insertion order  *)
(***************************************************************************)
\* Mutation of enqueue: an entry goes before the entries of equal time.
RECURSIVE enqueue_BeforeEqual(_, _, _)
enqueue_BeforeEqual(q, e, t) ==
    IF q = <<>> THEN <<[e |-> e, t |-> t]>>
    ELSE IF Head(q).t < t
         THEN <<Head(q)>> \o enqueue_BeforeEqual(Tail(q), e, t)
    ELSE <<[e |-> e, t |-> t]>> \o q

RECURSIVE enqueue(_, _, _)
enqueue(q, e, t) ==
    IF q = <<>> THEN <<[e |-> e, t |-> t]>>
    ELSE IF Head(q).t <= t THEN <<Head(q)>> \o enqueue(Tail(q), e, t)
    ELSE <<[e |-> e, t |-> t]>> \o q

isEmpty(q) == q = <<>>

(***************************************************************************)
(* TCPClient                                                               *)
(***************************************************************************)
\* TCPClient(): only the acknowledged dict exists; msgBytes, seq and ack are
\* attributes created by requestMessage (set = FALSE until then).
NewClient ==
    [set |-> FALSE, msgBytes |-> <<>>, seq |-> 0, ack |-> 0,
     acknowledged |-> {}]

\* requestMessage, lines 79-81, for a non-empty msg.
StartMessage(c, msg) ==
    [c EXCEPT !.set = TRUE, !.msgBytes = Encode(msg), !.seq = 0, !.ack = 0]

\* Mutation of BuildPacket: a segment carries one byte less than
\* MAX_PACKET_DATA.
BuildPacket_ShortSegment(c, w) ==
    LET nBytes == Min(MAX_PACKET_DATA - 1, Len(c.msgBytes) - c.seq)
        data == SubSeq(c.msgBytes, c.seq + 1, c.seq + nBytes)
        p == TCPPacket(c.seq, c.ack, TRUE, data, w)
    IN [p EXCEPT !.FIN = (c.seq + nBytes = Len(c.msgBytes))]

\* Mutation of BuildPacket: FIN is set when the segment is shorter than
\* MAX_PACKET_DATA.
BuildPacket_FinWhenShort(c, w) ==
    LET nBytes == Min(MAX_PACKET_DATA, Len(c.msgBytes) - c.seq)
        data == SubSeq(c.msgBytes, c.seq + 1, c.seq + nBytes)
        p == TCPPacket(c.seq, c.ack, TRUE, data, w)
    IN [p EXCEPT !.FIN = (nBytes < MAX_PACKET_DATA)]

\* sendNextPacket, lines 86-90: the packet p.
BuildPacket(c, w) ==
    LET nBytes == Min(MAX_PACKET_DATA, Len(c.msgBytes) - c.seq)
        data == SubSeq(c.msgBytes, c.seq + 1, c.seq + nBytes)
        p == TCPPacket(c.seq, c.ack, TRUE, data, w)
    IN [p EXCEPT !.FIN = (c.seq + nBytes = Len(c.msgBytes))]

\* sendNextPacket, line 92: random.randint(0,1) >= LOST_PACKET_PROBABILITY,
\* with the probability in percent.
Delivered(draw, prob) == draw * 100 >= prob

\* Mutation of sendNextPacket: the next RequestMessage is enqueued for every
\* delivered packet, FIN or not.
sendNextPacket_AlwaysRequest(c, q, t, draw, prob, w) ==
    LET p == BuildPacket(c, w)
        e == ReceivePacketEvent("server", p)
    IN IF Delivered(draw, prob)
       THEN enqueue(enqueue(q, e, t + TRANSMISSION_DELAY),
                    RequestMessageEvent("client"), t + TIMEOUT)
       ELSE q

\* sendNextPacket, lines 91-95: the queue after the send at time t.
sendNextPacket(c, q, t, draw, prob, w) ==
    LET p == BuildPacket(c, w)
        e == ReceivePacketEvent("server", p)
    IN IF Delivered(draw, prob)
       THEN LET q1 == enqueue(q, e, t + TRANSMISSION_DELAY)
            IN IF p.FIN
               THEN enqueue(q1, RequestMessageEvent("client"), t + TIMEOUT)
               ELSE q1
       ELSE q

\* Mutation of ClientReceive: the acknowledged dict is rebuilt on every
\* acknowledgment.
ClientReceive_Rebuild(c, p) ==
    [c EXCEPT !.seq = p.ack, !.ack = p.seq + 1, !.acknowledged = {p}]

\* receivePacket, lines 99-101: the client after the acknowledgment p.
ClientReceive(c, p) ==
    [c EXCEPT !.seq = p.ack, !.ack = p.seq + 1,
              !.acknowledged = c.acknowledged \cup {p}]

(***************************************************************************)
(* TCPServer                                                               *)
(***************************************************************************)
\* Mutation of resetForNextMessage: the buffer is kept.
resetForNextMessage_KeepBuffer(s) == [s EXCEPT !.ack = 0]

\* resetForNextMessage, lines 141-144.
resetForNextMessage(s) == [s EXCEPT !.msgBytes = <<>>, !.ack = 0]

\* TCPServer(): seq is first assigned by receivePacket.
NewServer == resetForNextMessage([msgBytes |-> <<>>, seq |-> 0, ack |-> 0])

\* Mutation of ServerAccept: the data replaces the buffer instead of
\* extending it.
ServerAccept_Assign(s, p) ==
    [s EXCEPT !.msgBytes = p.data, !.seq = p.ack,
              !.ack = p.seq + Len(p.data)]

\* Mutation of ServerAccept: the acknowledgment counts the packet, not its
\* bytes.
ServerAccept_AckNextSeq(s, p) ==
    [s EXCEPT !.msgBytes = s.msgBytes \o p.data, !.seq = p.ack,
              !.ack = p.seq + 1]

\* receivePacket, lines 130-132: the server before any reset.
ServerAccept(s, p) ==
    [s EXCEPT !.msgBytes = s.msgBytes \o p.data, !.seq = p.ack,
              !.ack = p.seq + Len(p.data)]

\* Mutation of ServerReply: the FIN flag is not copied to the reply.
ServerReply_NoFin(s, p, w) ==
    LET s1 == ServerAccept(s, p)
    IN TCPPacket(s1.seq, s1.ack, TRUE, <<>>, w)

\* receivePacket, lines 133-135: the reply packet.
ServerReply(s, p, w) ==
    LET s1 == ServerAccept(s, p)
    IN [TCPPacket(s1.seq, s1.ack, TRUE, <<>>, w) EXCEPT !.FIN = p.FIN]

\* receivePacket, line 136: decoding the buffer raises on malformed bytes.
ServerRaises(s, p) == p.FIN /\ ~WellFormed(ServerAccept(s, p).msgBytes)

\* receivePacket, lines 130-137: the server after the packet.
ServerReceive(s, p) ==
    IF p.FIN /\ ~ServerRaises(s, p)
    THEN resetForNextMessage(ServerAccept(s, p))
    ELSE ServerAccept(s, p)

(***************************************************************************)
(* TCPSimulator: the driver loop                                           *)
(***************************************************************************)
NoEvent == [type |-> "none", obj |-> "none", packet |-> NoPacket]

NewStats ==
    [accepted |-> 0, delivered |-> 0, nRecv |-> 0, sawEmpty |-> FALSE,
     hasAck |-> FALSE, lastAck |-> NoPacket, maxOut |-> 0]

\* Lines 48-54: the objects, and the two events enqueued before the loop.
Init ==
    /\ lossProb \in LossConfigs
    /\ defWindow \in {0, MaxWindow}
    /\ eventQueue = enqueue(enqueue(<<>>, RequestMessageEvent("client"), 0),
                            TimeoutEvent("client"), TIMEOUT)
    /\ client = NewClient
    /\ server = NewServer
    /\ status = "running"
    /\ trace = [e |-> NoEvent, t |-> 0, n |-> 0]
    /\ sent = <<>>
    /\ received = <<>>
    /\ stats = NewStats
    /\ dups = 0

\* Lines 55-56: the loop guard holds and the earliest entry is dequeued.
Dequeues(type, obj) ==
    /\ status = "running"
    /\ ~isEmpty(eventQueue)
    /\ Head(eventQueue).e.type = type
    /\ Head(eventQueue).e.obj = obj

Dispatched == [e |-> Head(eventQueue).e, t |-> Head(eventQueue).t,
               n |-> trace.n + 1]

\* Packets of the log that the cumulative acknowledgment point seq does not
\* cover.
Unacked(log, seq) == {i \in DOMAIN log : log[i].p.seq >= seq}

Max(a, b) == IF a > b THEN a ELSE b

\* One transmission of sendNextPacket, as observed.
Transmission(c, t, draw) ==
    [p |-> BuildPacket(c, defWindow), t |-> t,
     lost |-> ~Delivered(draw, lossProb)]

\* RequestMessageEvent.dispatch -> TCPClient.requestMessage, lines 74-82.
DispatchRequestMessage ==
    /\ Dequeues("RequestMessage", "client")
    /\ \E msg \in Messages :
         LET t == Head(eventQueue).t
             rest == Tail(eventQueue)
         IN IF Len(msg) # 0
            THEN /\ stats.accepted < MaxMsgs
                 /\ \E draw \in RandInts :
                      LET c == StartMessage(client, msg)
                      IN /\ client' = c
                         /\ eventQueue' = sendNextPacket(c, rest, t, draw,
                                                         lossProb, defWindow)
                         /\ sent' = <<Transmission(c, t, draw)>>
                 /\ stats' = [stats EXCEPT !.accepted = @ + 1, !.nRecv = 0,
                                           !.hasAck = FALSE, !.maxOut = 1]
            ELSE /\ eventQueue' = rest
                 /\ stats' = [stats EXCEPT !.sawEmpty = TRUE]
                 /\ UNCHANGED <<client, sent>>
    /\ trace' = Dispatched
    /\ UNCHANGED <<lossProb, defWindow, server, status, received, dups>>

\* TCPServer.receivePacket, lines 124-139, for packet p at time t on queue q.
ServerHandles(p, q, t) ==
    /\ server' = ServerReceive(server, p)
    /\ IF ServerRaises(server, p)
       THEN /\ status' = "crashed"
            /\ eventQueue' = q
            /\ UNCHANGED <<received, stats>>
       ELSE /\ status' = status
            /\ eventQueue' = enqueue(q, ReceivePacketEvent("client",
                                          ServerReply(server, p, defWindow)),
                                     t + TRANSMISSION_DELAY)
            /\ IF p.FIN
               THEN /\ received' = ServerAccept(server, p).msgBytes
                    /\ stats' = [stats EXCEPT !.delivered = @ + 1,
                                              !.nRecv = @ + 1]
               ELSE /\ received' = received
                    /\ stats' = [stats EXCEPT !.nRecv = @ + 1]

\* ReceivePacketEvent.dispatch with the server as handler.
DispatchServerReceive ==
    /\ Dequeues("ReceivePacket", "server")
    /\ ServerHandles(Head(eventQueue).e.packet, Tail(eventQueue),
                     Head(eventQueue).t)
    /\ trace' = Dispatched
    /\ UNCHANGED <<lossProb, defWindow, client, sent, dups>>

\* ReceivePacketEvent.dispatch with the client as handler:
\* TCPClient.receivePacket, lines 97-103.
DispatchClientReceive ==
    /\ Dequeues("ReceivePacket", "client")
    /\ LET p == Head(eventQueue).e.packet
           t == Head(eventQueue).t
           rest == Tail(eventQueue)
           c == ClientReceive(client, p)
       IN /\ client' = c
          /\ IF c.seq < Len(c.msgBytes)
             THEN \E draw \in RandInts :
                    /\ eventQueue' = sendNextPacket(c, rest, t, draw,
                                                    lossProb, defWindow)
                    /\ sent' = Append(sent, Transmission(c, t, draw))
             ELSE /\ eventQueue' = rest
                  /\ sent' = sent
          /\ stats' = [stats EXCEPT
                         !.nRecv = @ + 1, !.hasAck = TRUE, !.lastAck = p,
                         !.maxOut = Max(@, Cardinality(Unacked(sent', c.seq)))]
    /\ trace' = Dispatched
    /\ UNCHANGED <<lossProb, defWindow, server, status, received, dups>>

\* TimeoutEvent.dispatch, lines 210-214.  self.packet is the client object
\* (line 112).  Reading its ack raises AttributeError before any message was
\* requested; a zero ack reaches self.server, which no TimeoutEvent has.
TimeoutRaises(c) == ~c.set \/ c.ack = 0

DispatchTimeout ==
    /\ Dequeues("Timeout", "client")
    /\ eventQueue' = Tail(eventQueue)
    /\ status' = IF TimeoutRaises(client) THEN "crashed" ELSE status
    /\ trace' = Dispatched
    /\ UNCHANGED <<lossProb, defWindow, client, server, sent, received,
                   stats, dups>>

\* Line 55: the loop ends when the queue is empty.
Terminate ==
    /\ status = "running"
    /\ isEmpty(eventQueue)
    /\ status' = "done"
    /\ UNCHANGED <<lossProb, defWindow, eventQueue, client, server, trace,
                   sent, received, stats, dups>>

Next ==
    \/ DispatchRequestMessage
    \/ DispatchServerReceive
    \/ DispatchClientReceive
    \/ DispatchTimeout
    \/ Terminate

Spec == Init /\ [][Next]_vars

(***************************************************************************)
(* Duplicate-delivery harness: a test hands the server a data packet of    *)
(* the current message directly, as a duplicate of one already received or *)
(* ahead of one still missing.                                             *)
(***************************************************************************)
SegmentOffsets(c) ==
    {k \in 0..Len(c.msgBytes) : k % MAX_PACKET_DATA = 0 /\ k < Len(c.msgBytes)}

InjectPacket ==
    /\ status = "running"
    /\ client.set
    /\ dups < MaxDups
    /\ \E k \in SegmentOffsets(client) :
         LET p == BuildPacket([client EXCEPT !.seq = k], defWindow)
         IN /\ ServerHandles(p, eventQueue, trace.t)
            /\ trace' = [e |-> ReceivePacketEvent("server", p),
                         t |-> trace.t, n |-> trace.n + 1]
    /\ dups' = dups + 1
    /\ UNCHANGED <<lossProb, defWindow, client, sent>>

NextInject == Next \/ InjectPacket

SpecInject == Init /\ [][NextInject]_vars

(***************************************************************************)
(* Properties                                                              *)
(***************************************************************************)
\* The event last dispatched was a ReceivePacket for handler h.
JustReceived(h) ==
    /\ trace.e.type = "ReceivePacket"
    /\ trace.e.obj = h

CeilDiv(a, b) == (a + b - 1) \div b

\* Bytes of the current message sent and not covered by the client's
\* cumulative acknowledgment point.
RECURSIVE Outstanding(_, _)
Outstanding(log, seq) ==
    IF log = <<>> THEN 0
    ELSE (IF Head(log).p.seq >= seq THEN Len(Head(log).p.data) ELSE 0)
         + Outstanding(Tail(log), seq)

\* C1: with loss probability 0, the buffer the server holds when it
\* processes the FIN packet (the bytes it prints) equals the bytes of the
\* message the client is sending.
C1_NoLossDeliversMessage ==
    (lossProb = 0 /\ JustReceived("server") /\ trace.e.packet.FIN)
        => received = client.msgBytes

\* C1 witness: a two-segment message whose length is no multiple of
\* MAX_PACKET_DATA has been delivered without loss.
C1_Witness ==
    /\ lossProb = 0
    /\ JustReceived("server") /\ trace.e.packet.FIN
    /\ Len(client.msgBytes) = MAX_PACKET_DATA + 1
    /\ received = client.msgBytes

\* C2: eventual delivery, in the form a finite run refutes: unless loss is
\* total, a run that has stopped has delivered every message it accepted.
C2_EventualDelivery ==
    (lossProb < 100 /\ status \in {"done", "crashed"})
        => stats.delivered = stats.accepted

\* C3: the bytes sent and not yet acknowledged never exceed the window
\* carried by the most recent acknowledgment the client received.
C3_FlowControl ==
    stats.hasAck => Outstanding(sent, client.seq) <= stats.lastAck.window

\* C4: a data packet whose seq differs from the server's next-expected-seq
\* leaves the buffer and next-expected-seq unchanged and is answered with
\* the previously established ack.
C4_InOrderAcceptance ==
    [][(/\ trace'.n # trace.n
        /\ trace'.e.type = "ReceivePacket"
        /\ trace'.e.obj = "server"
        /\ trace'.e.packet.seq # server.ack)
       => /\ server'.msgBytes = server.msgBytes
          /\ server'.ack = server.ack
          /\ \E i \in DOMAIN eventQueue' :
               /\ eventQueue'[i].e.type = "ReceivePacket"
               /\ eventQueue'[i].e.obj = "client"
               /\ eventQueue'[i].t = trace'.t + TRANSMISSION_DELAY
               /\ eventQueue'[i].e.packet.ack = server.ack]_vars

\* C5: a Timeout dispatched for an acknowledged packet changes nothing and
\* enqueues nothing; for an unacknowledged packet it sends the packet again
\* and enqueues a new Timeout.
C5_TimeoutSemantics ==
    [][(/\ trace'.n # trace.n
        /\ trace'.e.type = "Timeout"
        /\ client.set)
       => IF stats.hasAck
          THEN /\ client' = client
               /\ server' = server
               /\ status' = status
               /\ eventQueue' = Tail(eventQueue)
          ELSE /\ status' = "running"
               /\ \E i \in DOMAIN eventQueue' :
                    eventQueue'[i].e.type = "Timeout"]_vars

\* C6: with loss probability 1 no data packet reaches the server, so its
\* reassembly buffer is empty in every state.
C6_TotalLossEmptyBuffer ==
    lossProb = 100 => (server.msgBytes = <<>> /\ ~JustReceived("server"))

\* C7: with loss probability 0, when the client has processed the
\* acknowledgment of its FIN packet, 2 * ceil(L / MAX_PACKET_DATA)
\* ReceivePacket events were dispatched since the message was accepted.
C7_PacketCount ==
    (lossProb = 0 /\ JustReceived("client") /\ trace.e.packet.FIN)
        => stats.nRecv = 2 * CeilDiv(Len(client.msgBytes), MAX_PACKET_DATA)

\* C7 witness: the FIN acknowledgment of a message of exactly
\* MAX_PACKET_DATA bytes has been processed after two ReceivePackets.
C7_Witness ==
    /\ lossProb = 0
    /\ JustReceived("client") /\ trace.e.packet.FIN
    /\ Len(client.msgBytes) = MAX_PACKET_DATA
    /\ stats.nRecv = 2

\* C8: once the input returned an empty message the run does not fail.
C8_Quiescence == stats.sawEmpty => status # "crashed"

\* C9: an acknowledgment mark, once made, is never removed.
C9_AckMonotonic ==
    [][client.acknowledged \subseteq client'.acknowledged]_vars

\* C9 witness: a second acknowledgment was marked while the first mark is
\* still present.
C9_Witness ==
    /\ JustReceived("client")
    /\ Cardinality(client.acknowledged) >= 2
    /\ trace.e.packet \in client.acknowledged

\* C10: no dispatch raises.
C10_NoFatalError == status # "crashed"

\* The step dispatched an event (every action but the loop exit).
Dispatches == trace'.n # trace.n

\* The step made a transmission: sendNextPacket built and sent a packet.
Transmits == Dispatches /\ sent' # sent

Last(log) == log[Len(log)]

\* Positions of the queue q holding an event of the given type.
EventsOf(q, type) == {i \in DOMAIN q : q[i].e.type = type}

\* Positions of the queue q holding a ReceivePacket for handler h.
PacketsFor(q, h) ==
    {i \in DOMAIN q : q[i].e.type = "ReceivePacket" /\ q[i].e.obj = h}

\* C11: every transmission at time t leaves a Timeout for time t + TIMEOUT
\* in the queue, and a dropped packet leaves no ReceivePacket for the
\* server.
C11_TimeoutPerSend ==
    [][Transmits =>
         /\ \E i \in EventsOf(eventQueue', "Timeout") :
              eventQueue'[i].t = trace'.t + TIMEOUT
         /\ Last(sent').lost => PacketsFor(eventQueue', "server") = {}]_vars

\* C12: after the client processes an acknowledgment a, its seq is a.ack,
\* its ack is a.seq + 1, and every packet sent with seq < a.ack is a key of
\* the acknowledged mapping.
C12_CumulativeAck ==
    JustReceived("client") =>
        /\ client.seq = trace.e.packet.ack
        /\ client.ack = trace.e.packet.seq + 1
        /\ \A i \in DOMAIN sent :
             (sent[i].p.seq < trace.e.packet.ack /\ sent[i].t < trace.t)
                 => sent[i].p \in client.acknowledged

\* The replies in the queue right after the server handled a packet.
Replies == {eventQueue[i].e.packet : i \in PacketsFor(eventQueue, "client")}

\* C13 as stated: every reply has ACK set, seq 0, ack equal to the server's
\* next-expected-seq after the packet, and FIN exactly when the data packet
\* had it.
C13_ReplySeqZero ==
    (JustReceived("server") /\ status = "running") =>
        /\ Replies # {}
        /\ \A r \in Replies :
             /\ r.ACK
             /\ r.seq = 0
             /\ r.ack = server.ack
             /\ r.FIN = trace.e.packet.FIN

\* C13 amended: every reply has ACK set, seq equal to the ack field of the
\* data packet, ack equal to the data packet's seq plus its length, and FIN
\* exactly when the data packet had it.
C13_ReplyFields ==
    (JustReceived("server") /\ status = "running") =>
        /\ Replies # {}
        /\ \A r \in Replies :
             /\ r.ACK
             /\ r.seq = trace.e.packet.ack
             /\ r.ack = trace.e.packet.seq + Len(trace.e.packet.data)
             /\ r.FIN = trace.e.packet.FIN
             /\ r.data = <<>>

\* C13 witness: the reply to the second segment of a message, whose seq
\* is 1.
C13_Witness ==
    /\ JustReceived("server") /\ status = "running"
    /\ trace.e.packet.seq = MAX_PACKET_DATA
    /\ trace.e.packet.FIN
    /\ \E r \in Replies : r.seq = 1 /\ r.FIN /\ r.ack = Len(client.msgBytes)

\* C14: right after the server processed a FIN packet its buffer is empty
\* and its next-expected-seq is 0, the reply in the queue carries the
\* message length as ack, and the bytes delivered are those of the current
\* message alone.
C14_ResetOnFin ==
    (JustReceived("server") /\ trace.e.packet.FIN /\ status = "running") =>
        /\ server.msgBytes = <<>>
        /\ server.ack = 0
        /\ Replies # {}
        /\ \A r \in Replies : r.ack = Len(client.msgBytes) /\ r.ack > 0
        /\ received = client.msgBytes

\* C14 witness: the FIN packet of the second message of a run has been
\* processed.
C14_Witness ==
    /\ JustReceived("server") /\ trace.e.packet.FIN /\ status = "running"
    /\ stats.accepted = 2
    /\ stats.delivered = 2
    /\ server.msgBytes = <<>>
    /\ received = client.msgBytes

\* C15: right after a RequestMessage dispatch accepted a message, the
\* client's seq and ack are 0 and its acknowledged mapping is empty.
C15_SessionReset ==
    (trace.e.type = "RequestMessage" /\ sent # <<>> /\ sent[1].t = trace.t)
        => /\ client.seq = 0
           /\ client.ack = 0
           /\ client.acknowledged = {}

\* The FIN packet of the current message has not been acknowledged.
FinUnacked == client.set /\ client.seq < Len(client.msgBytes)

\* C16 as stated: no RequestMessage for a following message is in the queue
\* while the current message's FIN is unacknowledged.
C16_RequestAfterFinAck ==
    FinUnacked => EventsOf(eventQueue, "RequestMessage") = {}

\* C16 amended: a dispatch enqueues a RequestMessage exactly when it sends
\* a FIN packet that is not dropped, for the send time plus TIMEOUT.
C16_RequestOnFinSend ==
    [][Dispatches =>
         LET before == IF trace'.e.type = "RequestMessage"
                       THEN Cardinality(EventsOf(eventQueue,
                                                 "RequestMessage")) - 1
                       ELSE Cardinality(EventsOf(eventQueue,
                                                 "RequestMessage"))
             after == Cardinality(EventsOf(eventQueue', "RequestMessage"))
             finSent == /\ Transmits
                        /\ Last(sent').p.FIN
                        /\ ~Last(sent').lost
         IN /\ after = before + (IF finSent THEN 1 ELSE 0)
            /\ finSent =>
                 \E i \in EventsOf(eventQueue', "RequestMessage") :
                     eventQueue'[i].t = trace'.t + TIMEOUT]_vars

\* C16 witness: a RequestMessage is queued while the FIN packet just sent
\* is still unacknowledged.
C16_Witness ==
    /\ FinUnacked
    /\ sent # <<>> /\ Last(sent).p.FIN /\ ~Last(sent).lost
    /\ \E i \in EventsOf(eventQueue, "RequestMessage") :
         eventQueue[i].t = Last(sent).t + TIMEOUT

\* Python's message[a:b].
Slice(m, a, b) == SubSeq(m, a + 1, Min(b, Len(m)))

\* The data packets of the current message: those logged as sent and those
\* queued for the server.
DataPackets ==
    {sent[i].p : i \in DOMAIN sent}
        \cup {eventQueue[i].e.packet : i \in PacketsFor(eventQueue, "server")}

\* C17: every data packet of a message of length L starts at a send offset
\* the client held, carries min(MAX_PACKET_DATA, L - seq) bytes (between 1
\* and MAX_PACKET_DATA) equal to message[seq : seq + n], has ACK set and has
\* FIN set exactly when seq + n = L; and 0 <= client.seq <= L always.
C17_Segmentation ==
    LET L == Len(client.msgBytes)
    IN /\ \A p \in DataPackets :
            LET n == Len(p.data)
            IN /\ n = Min(MAX_PACKET_DATA, L - p.seq)
               /\ n >= 1 /\ n <= MAX_PACKET_DATA
               /\ p.data = Slice(client.msgBytes, p.seq, p.seq + n)
               /\ p.ACK
               /\ p.FIN = (p.seq + n = L)
       /\ (sent # <<>> /\ Unacked(sent, client.seq) # {})
              => Last(sent).p.seq = client.seq
       /\ client.seq >= 0
       /\ client.seq <= L

\* C17 witness: the one-byte FIN packet of a five-byte message is queued
\* for the server.
C17_Witness ==
    /\ Len(client.msgBytes) = MAX_PACKET_DATA + 1
    /\ client.seq = MAX_PACKET_DATA
    /\ \E i \in PacketsFor(eventQueue, "server") :
         /\ eventQueue[i].e.packet.seq = MAX_PACKET_DATA
         /\ Len(eventQueue[i].e.packet.data) = 1
         /\ eventQueue[i].e.packet.FIN

\* Two data packets of the current message are sent and unacknowledged.
Pipelined == Cardinality(Unacked(sent, client.seq)) >= 2

\* C18: a loss-free transfer of a message longer than MAX_PACKET_DATA, with
\* a window large enough for two segments, passes through a state in which
\* two data packets are sent and neither is acknowledged.  Without loss the
\* run for a given message is a single path, so the state is reachable
\* exactly when that path has passed through it once the transfer is over.
C18_Pipelining ==
    (/\ lossProb = 0
     /\ defWindow >= 2 * MAX_PACKET_DATA
     /\ Len(client.msgBytes) > MAX_PACKET_DATA
     /\ JustReceived("client") /\ trace.e.packet.FIN)
        => stats.maxOut >= 2

\* C18, what the code does instead: at most one data packet of a message
\* is unacknowledged in any state.
C18_StopAndWait == ~Pipelined

\* The queue q holds its entries in non-decreasing time order.
Sorted(q) == \A i, j \in DOMAIN q : i < j => q[i].t <= q[j].t

\* C19: dispatch times never decrease, the queue stays ordered by time, and
\* the Timeout enqueued before the loop for time TIMEOUT is dispatched
\* before the RequestMessage that the send at time 0 enqueued for the same
\* time.
C19_FifoOrder ==
    [][Dispatches =>
         /\ trace'.t >= trace.t
         /\ Sorted(eventQueue')
         /\ (trace'.e.type = "RequestMessage" /\ trace'.t = TIMEOUT)
                => /\ trace.e.type = "Timeout"
                   /\ trace.t = TIMEOUT
                   /\ EventsOf(eventQueue', "Timeout") = {}]_vars

\* C19 witness: the RequestMessage enqueued at time 0 for time TIMEOUT has
\* been dispatched right after the Timeout of the same time.
C19_Witness ==
    /\ trace.e.type = "RequestMessage"
    /\ trace.t = TIMEOUT
    /\ trace.n = 5
    /\ status = "running"
    /\ EventsOf(eventQueue, "Timeout") = {}

IsPrefix(a, b) == Len(a) <= Len(b) /\ a = SubSeq(b, 1, Len(a))

\* C20: in every state the server's buffer is a prefix of the message the
\* client is transferring and the server's next-expected-seq is the length
\* of the buffer.
C20_BufferIsPrefix ==
    /\ IsPrefix(server.msgBytes, client.msgBytes)
    /\ server.ack = Len(server.msgBytes)

\* C20 witness: the first segment of a two-segment message is buffered and
\* the second segment was dropped.
C20_Witness ==
    /\ Len(server.msgBytes) = MAX_PACKET_DATA
    /\ Len(client.msgBytes) > MAX_PACKET_DATA
    /\ server.ack = MAX_PACKET_DATA
    /\ sent # <<>> /\ Last(sent).lost /\ Last(sent).p.seq = MAX_PACKET_DATA

====
